---- MODULE Spec2Model ----
(***************************************************************************)
(* Model of services/ai_manager.py: the AIManager provider fallback router *)
(* (provider registry, health ledger, selection, cooldown reconciliation,  *)
(* dispatch of one generate call, rate-limit handling, reset).             *)
(***************************************************************************)
EXTENDS Integers, Sequences, FiniteSets, TLC

VARIABLES
    providers,            \* self.providers[name]: client, available, error_count, last_success, consecutive_failures
    provider_failures,    \* self.provider_failures
    last_error,           \* self.last_error
    provider_enabled,     \* self.provider_enabled (keys can grow)
    last_failure_time,    \* self.last_failure_time (keys can grow)
    rate_limits,          \* self.rate_limits (starts empty)
    current_model_index,  \* self.providers['huggingface']['current_model_index']
    HAS,                  \* the import flags HAS_GEMINI, HAS_OPENAI, HAS_GROQ_CLIENT that are True
    now,                  \* the clock read by time.time() / datetime.now(), in seconds
    calls,                \* number of operations performed so far
    history,              \* per provider: failed attempts since its last success or explicit reset
    op,                   \* the last operation performed and what it returned
    futures,              \* generate_parallel_analysis: the worker thread of each submitted prompt
    results,              \* generate_parallel_analysis: the results dict
    collector             \* generate_parallel_analysis: where the calling thread is

vars == <<providers, provider_failures, last_error, provider_enabled, last_failure_time,
          rate_limits, current_model_index, HAS, now, calls, history, op,
          futures, results, collector>>

----------------------------------------------------------------------------
(* Bounds of the exploration *)

MaxCalls == 3

(* Program constants *)

max_failures == 3
cooldown_duration == 600
gemini_extended_timeout == 600
batch_timeout == 600
default_reset_minutes == 4
MinCooldownSeconds == default_reset_minutes * 60

Providers == {"gemini", "groq", "openai", "huggingface"}
GeminiModel == "gemini-2.0-flash-exp"

(* the ids of the prompts handed to generate_parallel_analysis *)
Requests == {"p1", "p2"}
Keys == Providers \cup {GeminiModel}
LibraryGated == {"gemini", "groq", "openai"}

NoName == "None"
EmptyName == ""
NoTime == -1
NoError == "None"
NoTimeout == 0

priority(name) ==
    CASE name = "gemini" -> 1
      [] name = "groq" -> 2
      [] name = "openai" -> 3
      [] name = "huggingface" -> 4

NumModels == 2

(* The clock readings at which operations are observed: the start, exactly one
   cooldown later, and 700 s after the start. *)
TimePoints == {0, cooldown_duration, cooldown_duration + 100}

----------------------------------------------------------------------------
(* Error texts a backend can raise, and the substrings the code looks for *)

ErrorTexts == {"connection reset", "429 too many requests", "quota exceeded for the day",
               "rate limit, retry in 1 hour", "rate limit, retry in 1 minute"}

EmptyText(name) ==
    CASE name = "gemini" -> "Resposta vazia do Gemini"
      [] name = "groq" -> "Resposta vazia do Groq"
      [] name = "openai" -> "Resposta vazia do OpenAI"
      [] OTHER -> "Resposta vazia do provedor."

NoClientText(name) ==
    CASE name = "gemini" -> "Cliente Gemini nao inicializado."
      [] name = "groq" -> "Cliente Groq nao inicializado."
      [] name = "openai" -> "Cliente OpenAI nao inicializado."
      [] OTHER -> "Cliente HuggingFace nao inicializado."

AllModelsFailedText == "Todos os modelos HuggingFace falharam"
FirstAttemptFailedText == "Falha na primeira tentativa de gerar resposta."
HFStatusText(code) == IF code = 429 THEN "Erro 429: too many requests" ELSE "Erro 500: internal error"

(* keyword in error_msg.lower(), tabulated for the texts above *)
Substrings(msg) ==
    CASE msg = "429 too many requests" -> {"429", "too many"}
      [] msg = "quota exceeded for the day" -> {"quota", "exceeded", "day"}
      [] msg = "rate limit, retry in 1 hour" -> {"rate limit", "hour"}
      [] msg = "rate limit, retry in 1 minute" -> {"rate limit", "minute"}
      [] msg = "Erro 429: too many requests" -> {"429", "too many"}
      [] OTHER -> {}

RateLimitKeywords == {"429", "rate limit", "quota", "exceeded", "too many"}

IsRateLimitText(msg) == Substrings(msg) \cap RateLimitKeywords # {}

----------------------------------------------------------------------------
(* The ledger as one value, so that handlers compose *)

Ledger ==
    [providers |-> providers, provider_failures |-> provider_failures,
     last_error |-> last_error, provider_enabled |-> provider_enabled,
     last_failure_time |-> last_failure_time, rate_limits |-> rate_limits,
     current_model_index |-> current_model_index]

Put(f, k, v) == [x \in (DOMAIN f) \cup {k} |-> IF x = k THEN v ELSE f[x]]

Get(f, k, default) == IF k \in DOMAIN f THEN f[k] ELSE default

----------------------------------------------------------------------------
(* RecordSuccess resetting only the counter kept in the provider dict *)
RecordSuccessDictCounterOnly(L, name, t) ==
    IF name \notin Providers THEN L
    ELSE [L EXCEPT !.providers[name].consecutive_failures = 0,
                   !.last_error[name] = NoError,
                   !.last_failure_time[name] = NoTime,
                   !.provider_enabled[name] = TRUE,
                   !.providers[name].last_success = t]

(* RecordSuccess zeroing the error count as well *)
RecordSuccessClearsErrorCount(L, name, t) ==
    IF name \notin Providers THEN L
    ELSE [L EXCEPT !.providers[name].consecutive_failures = 0,
                   !.providers[name].error_count = 0,
                   !.provider_failures[name] = 0,
                   !.last_error[name] = NoError,
                   !.last_failure_time[name] = NoTime,
                   !.provider_enabled[name] = TRUE,
                   !.providers[name].last_success = t]

(* RecordSuccess re-enabling every provider, not only the one that answered *)
RecordSuccessEnablesAll(L, name, t) ==
    IF name \notin Providers THEN L
    ELSE [L EXCEPT !.providers[name].consecutive_failures = 0,
                   !.provider_failures[name] = 0,
                   !.last_error[name] = NoError,
                   !.last_failure_time[name] = NoTime,
                   !.provider_enabled = [n \in DOMAIN @ |-> TRUE],
                   !.providers[name].last_success = t]

(* _record_success *)

RecordSuccess(L, name, t) ==
    IF name \notin Providers THEN L
    ELSE [L EXCEPT !.providers[name].consecutive_failures = 0,
                   !.provider_failures[name] = 0,
                   !.last_error[name] = NoError,
                   !.last_failure_time[name] = NoTime,
                   !.provider_enabled[name] = TRUE,
                   !.providers[name].last_success = t]

(* RecordFailure without the threshold test *)
RecordFailureNeverDisables(L, name, msg, t) ==
    IF name \notin Providers THEN L
    ELSE [L EXCEPT !.provider_failures[name] = @ + 1,
                   !.last_error[name] = msg,
                   !.providers[name].error_count = @ + 1,
                   !.last_failure_time[name] = t]

(* RecordFailure without the failure timestamp *)
RecordFailureNoTimestamp(L, name, msg, t) ==
    IF name \notin Providers THEN L
    ELSE LET L1 == [L EXCEPT !.provider_failures[name] = @ + 1,
                             !.last_error[name] = msg,
                             !.providers[name].error_count = @ + 1]
         IN IF L1.provider_failures[name] >= max_failures
            THEN [L1 EXCEPT !.provider_enabled[name] = FALSE]
            ELSE L1

(* RecordFailure disabling only above the threshold *)
RecordFailureAboveThreshold(L, name, msg, t) ==
    IF name \notin Providers THEN L
    ELSE LET L1 == [L EXCEPT !.provider_failures[name] = @ + 1,
                             !.last_error[name] = msg,
                             !.providers[name].error_count = @ + 1,
                             !.last_failure_time[name] = t]
         IN IF L1.provider_failures[name] > max_failures
            THEN [L1 EXCEPT !.provider_enabled[name] = FALSE]
            ELSE L1

(* _record_failure *)

RecordFailure(L, name, msg, t) ==
    IF name \notin Providers THEN L
    ELSE LET L1 == [L EXCEPT !.provider_failures[name] = @ + 1,
                             !.last_error[name] = msg,
                             !.providers[name].error_count = @ + 1,
                             !.last_failure_time[name] = t]
         IN IF L1.provider_failures[name] >= max_failures
            THEN [L1 EXCEPT !.provider_enabled[name] = FALSE]
            ELSE L1

(* _handle_rate_limit: the cooldown it chooses, in minutes *)

ResetMinutes(msg, extended_timeout) ==
    IF extended_timeout # NoTimeout THEN extended_timeout \div 60
    ELSE IF "day" \in Substrings(msg) THEN 1440
    ELSE IF "hour" \in Substrings(msg) THEN 60
    ELSE IF "minute" \in Substrings(msg) THEN 10
    ELSE default_reset_minutes

(* HandleRateLimit leaving the disabling to the failure threshold *)
HandleRateLimitThresholdOnly(L, name, msg, extended_timeout, t) ==
    RecordFailure(
        [L EXCEPT !.rate_limits =
            Put(@, name, [reset_time |-> t + 60 * ResetMinutes(msg, extended_timeout),
                          attempts |-> Get(L.rate_limits, name,
                                           [reset_time |-> NoTime, attempts |-> 0]).attempts + 1])],
        name, msg, t)

(* _handle_rate_limit; provider_name is whatever key the caller passes *)

HandleRateLimit(L, name, msg, extended_timeout, t) ==
    LET reset_time == t + 60 * ResetMinutes(msg, extended_timeout)
        attempts == Get(L.rate_limits, name, [reset_time |-> NoTime, attempts |-> 0]).attempts
        L1 == [L EXCEPT !.rate_limits =
                   Put(@, name, [reset_time |-> reset_time, attempts |-> attempts + 1])]
        L2 == RecordFailure(L1, name, msg, t)
    IN [L2 EXCEPT !.provider_enabled = Put(@, name, FALSE),
                  !.last_failure_time = Put(@, name, t)]

----------------------------------------------------------------------------
(* Selection *)

(* the last failure time looked up in self.last_failure_time *)
LedgerLastFailureTime(L, name) == Get(L.last_failure_time, name, NoTime)

(* provider.get('last_failure_time'): the provider dicts built in __init__ have
   no such key and nothing ever adds it, so the lookup yields None. *)
ProviderGetLastFailureTime(L, name) == NoTime

(* CooldownExpired reading the ledger's last failure time, with >= for > *)
CooldownExpiredAtBoundary(L, name, t) ==
    /\ Get(L.last_failure_time, name, NoTime) # NoTime
    /\ t - Get(L.last_failure_time, name, NoTime) >= cooldown_duration

CooldownExpired(L, name, t) ==
    /\ ProviderGetLastFailureTime(L, name) # NoTime
    /\ t - ProviderGetLastFailureTime(L, name) > cooldown_duration

(* the re-enable loop of get_best_provider, for one provider; each iteration
   touches only that provider's entries *)
ReconcileBestOne(L, name, t) ==
    IF ~L.providers[name].available /\ CooldownExpired(L, name, t)
    THEN [L EXCEPT !.providers[name].available = TRUE,
                   !.provider_enabled[name] = TRUE,
                   !.provider_failures[name] = 0,
                   !.last_error[name] = NoError,
                   !.last_failure_time[name] = NoTime]
    ELSE IF ~L.provider_enabled[name] /\ CooldownExpired(L, name, t)
    THEN [L EXCEPT !.provider_enabled[name] = TRUE,
                   !.last_failure_time[name] = NoTime]
    ELSE L

(* the re-enable loop of _get_next_available_provider, for one provider *)
ReconcileNextOne(L, name, t) ==
    IF (~L.providers[name].available \/ ~Get(L.provider_enabled, name, TRUE))
       /\ CooldownExpired(L, name, t)
    THEN [L EXCEPT !.providers[name].available = TRUE,
                   !.provider_enabled[name] = TRUE,
                   !.provider_failures[name] = 0,
                   !.last_error[name] = NoError,
                   !.last_failure_time[name] = NoTime]
    ELSE L

(* the providers in dict order *)
ProviderOrder == <<"gemini", "groq", "openai", "huggingface">>

RECURSIVE ReconcileBestFrom(_, _, _)
ReconcileBestFrom(L, i, t) ==
    IF i > Len(ProviderOrder) THEN L
    ELSE ReconcileBestFrom(ReconcileBestOne(L, ProviderOrder[i], t), i + 1, t)

ReconcileBest(L, t) == ReconcileBestFrom(L, 1, t)

RECURSIVE ReconcileNextFrom(_, _, _)
ReconcileNextFrom(L, i, t) ==
    IF i > Len(ProviderOrder) THEN L
    ELSE ReconcileNextFrom(ReconcileNextOne(L, ProviderOrder[i], t), i + 1, t)

ReconcileNext(L, t) == ReconcileNextFrom(L, 1, t)

(* Eligible without the provider_enabled test *)
EligibleIgnoringEnabled(L, name, exclude) ==
    /\ name \notin exclude
    /\ L.providers[name].available
    /\ Get(L.provider_failures, name, 0) < max_failures

(* the filter of both selectors *)
Eligible(L, name, exclude) ==
    /\ name \notin exclude
    /\ L.providers[name].available
    /\ Get(L.provider_enabled, name, TRUE)
    /\ Get(L.provider_failures, name, 0) < max_failures

(* the filter get_best_provider applies after its reset *)
EligibleAfterReset(L, name) ==
    L.providers[name].available /\ L.provider_enabled[name]

(* SortKeyLeq comparing the failure counts before the priorities *)
SortKeyFailuresFirst(L, a, b) ==
    \/ L.provider_failures[a] < L.provider_failures[b]
    \/ L.provider_failures[a] = L.provider_failures[b] /\ priority(a) <= priority(b)

(* sort(key=(priority, provider_failures)) and take the first *)
SortKeyLeq(L, a, b) ==
    \/ priority(a) < priority(b)
    \/ priority(a) = priority(b) /\ L.provider_failures[a] <= L.provider_failures[b]

First(L, candidates) ==
    IF candidates = {} THEN NoName
    ELSE CHOOSE a \in candidates : \A b \in candidates : SortKeyLeq(L, a, b)

(* GlobalResetOne clearing the counters but leaving the provider disabled *)
GlobalResetOneKeepsDisabled(L, name, t) ==
    IF ~L.providers[name].available THEN L
    ELSE IF L.provider_failures[name] > 0
    THEN [L EXCEPT !.provider_failures[name] = 0,
                   !.last_error[name] = NoError,
                   !.last_failure_time[name] = NoTime]
    ELSE L

(* the reset get_best_provider performs when its filter leaves nothing *)
GlobalResetOne(L, name, t) ==
    IF ~L.providers[name].available THEN L
    ELSE IF L.provider_failures[name] > 0
    THEN [L EXCEPT !.provider_failures[name] = 0,
                   !.last_error[name] = NoError,
                   !.last_failure_time[name] = NoTime,
                   !.provider_enabled[name] = TRUE]
    ELSE L

RECURSIVE GlobalResetFrom(_, _, _)
GlobalResetFrom(L, i, t) ==
    IF i > Len(ProviderOrder) THEN L
    ELSE GlobalResetFrom(GlobalResetOne(L, ProviderOrder[i], t), i + 1, t)

GlobalReset(L, t) == GlobalResetFrom(L, 1, t)

(* get_best_provider after its reset branch: the second filter and the sort *)
SelectAfterReset(L2) ==
    [ledger |-> L2, name |-> First(L2, {n \in Providers : EligibleAfterReset(L2, n)}),
     reset |-> TRUE]

(* get_best_provider from its first filter on *)
SelectBest(L1, t) ==
    IF {n \in Providers : Eligible(L1, n, {})} # {}
    THEN [ledger |-> L1, name |-> First(L1, {n \in Providers : Eligible(L1, n, {})}),
          reset |-> FALSE]
    ELSE SelectAfterReset(GlobalReset(L1, t))

(* get_best_provider: the ledger it leaves, the name it returns, and whether
   it went through the reset branch *)
GetBestProvider(L, t) == SelectBest(ReconcileBest(L, t), t)

(* _get_next_available_provider from its filter on *)
SelectNext(L1, exclude) ==
    [ledger |-> L1, name |-> First(L1, {n \in Providers : Eligible(L1, n, exclude)})]

(* _get_next_available_provider *)
GetNextAvailableProvider(L, exclude, t) == SelectNext(ReconcileNext(L, t), exclude)

----------------------------------------------------------------------------
(* What a backend can answer *)

GeneratedText == "uma analise"

(* len(response.split()) *)
Words(text) == IF text = GeneratedText THEN 2 ELSE 0

RaisedTexts == {"connection reset", "429 too many requests", "rate limit, retry in 1 hour"}

BackendOutcomes ==
    {[kind |-> "text", msg |-> ""], [kind |-> "empty", msg |-> ""]}
    \cup {[kind |-> "error", msg |-> m] : m \in RaisedTexts}

(* per HuggingFace model: HTTP 200 with or without generated_text, 503, 429,
   another status, or an exception of requests.post / response.json *)
HFOutcomes ==
    {[kind |-> k, msg |-> ""] : k \in {"text", "empty", "503", "429", "500"}}
    \cup {[kind |-> "exception", msg |-> "429 too many requests"]}

(* A provider call ends by returning text or by raising msg; rate_limited tells
   whether the code took its rate-limit branch during the call. *)
Returned(L, text) == [ledger |-> L, raised |-> FALSE, text |-> text, msg |-> "", rate_limited |-> FALSE]

Raised(L, msg, rl) == [ledger |-> L, raised |-> TRUE, text |-> "", msg |-> msg, rate_limited |-> rl]

(* the except clause shared by _generate_with_gemini/groq/openai; key is the
   name each one passes to _handle_rate_limit *)
InnerExcept(L, name, key, extended_timeout, msg, t) ==
    IF IsRateLimitText(msg)
    THEN Raised(HandleRateLimit(L, key, msg, extended_timeout, t), msg, TRUE)
    ELSE Raised(RecordFailure(L, name, msg, t), msg, FALSE)

GenerateWithClient(L, name, key, extended_timeout, o, t) ==
    IF ~L.providers[name].client THEN Raised(L, NoClientText(name), FALSE)
    ELSE IF o.kind = "text" THEN Returned(L, GeneratedText)
    ELSE IF o.kind = "empty" THEN InnerExcept(L, name, key, extended_timeout, EmptyText(name), t)
    ELSE InnerExcept(L, name, key, extended_timeout, o.msg, t)

GenerateWithGemini(L, o, t) ==
    GenerateWithClient(L, "gemini", GeminiModel, gemini_extended_timeout, o, t)

GenerateWithGroq(L, o, t) == GenerateWithClient(L, "groq", "groq", NoTimeout, o, t)

GenerateWithOpenai(L, o, t) == GenerateWithClient(L, "openai", "openai", NoTimeout, o, t)

(* one iteration of the model loop of _generate_with_huggingface *)
HFModelStep(L, o, t) ==
    LET L1 == [L EXCEPT !.current_model_index = (@ + 1) % NumModels]
    IN CASE o.kind = "text" -> Returned(L1, GeneratedText)
         [] o.kind = "empty" -> Raised(L1, "", FALSE)
         [] o.kind = "503" -> Raised(L1, "", FALSE)
         [] o.kind = "429" ->
              Raised(HandleRateLimit(L1, "huggingface", HFStatusText(429), NoTimeout, t), "", TRUE)
         [] o.kind = "500" ->
              Raised(RecordFailure(L1, "huggingface", HFStatusText(500), t), "", FALSE)
         [] OTHER ->
              Raised(RecordFailure(L1, "huggingface", o.msg, t), "", FALSE)

RECURSIVE HFLoop(_, _, _, _, _)

(* after one iteration: return its text or go on with the next model *)
HFAfterStep(r, outs, i, rl, t) ==
    IF ~r.raised THEN r
    ELSE HFLoop(r.ledger, outs, i + 1, rl \/ r.rate_limited, t)

HFLoop(L, outs, i, rl, t) ==
    IF i > NumModels THEN Raised(L, AllModelsFailedText, rl)
    ELSE HFAfterStep(HFModelStep(L, outs[i], t), outs, i, rl, t)

GenerateWithHuggingface(L, outs, t) ==
    IF ~L.providers["huggingface"].client THEN Raised(L, NoClientText("huggingface"), FALSE)
    ELSE HFLoop(L, outs, 1, FALSE, t)

(* The token budget each _generate_with_* method hands to its backend *)
gemini_max_output_tokens == 8192
groq_max_tokens == 8192
openai_max_tokens == 4096
huggingface_max_new_tokens == 1024

Min(a, b) == IF a <= b THEN a ELSE b

(* "max_output_tokens": min(max_tokens, 8192) *)
GeminiMaxOutputTokens(max_tokens) == Min(max_tokens, gemini_max_output_tokens)

(* client.generate(prompt, max_tokens=min(max_tokens, 8192)) *)
GroqMaxTokens(max_tokens) == Min(max_tokens, groq_max_tokens)

(* max_tokens=min(max_tokens, 4096) *)
OpenaiMaxTokens(max_tokens) == Min(max_tokens, openai_max_tokens)

(* HuggingfaceMaxNewTokens passing the caller's budget on as it is *)
HuggingfaceMaxNewTokensUnclamped(max_tokens) == max_tokens

(* "parameters": {"max_new_tokens": min(max_tokens, 1024)} *)
HuggingfaceMaxNewTokens(max_tokens) == Min(max_tokens, huggingface_max_new_tokens)

(* the budgets the backend of provider name receives in one _call_provider:
   none when the method raises for a missing client before calling it *)
BackendTokens(L, name, max_tokens) ==
    IF name = NoName THEN {}
    ELSE IF ~L.providers[name].client THEN {}
    ELSE CASE name = "gemini" -> {GeminiMaxOutputTokens(max_tokens)}
           [] name = "groq" -> {GroqMaxTokens(max_tokens)}
           [] name = "openai" -> {OpenaiMaxTokens(max_tokens)}
           [] name = "huggingface" -> {HuggingfaceMaxNewTokens(max_tokens)}
           [] OTHER -> {}

(* _call_provider *)
CallProvider(L, name, o, outs, t) ==
    CASE name = "gemini" -> GenerateWithGemini(L, o, t)
      [] name = "groq" -> GenerateWithGroq(L, o, t)
      [] name = "openai" -> GenerateWithOpenai(L, o, t)
      [] name = "huggingface" -> GenerateWithHuggingface(L, outs, t)
      [] OTHER -> Returned(L, "")

(* RecordProviderFailure passing the model label for gemini, as
   _generate_with_gemini does *)
RecordProviderFailureModelKey(L, name, msg, t) ==
    IF name = NoName THEN L
    ELSE IF IsRateLimitText(msg)
    THEN IF name = "gemini"
         THEN HandleRateLimit(L, GeminiModel, msg, gemini_extended_timeout, t)
         ELSE HandleRateLimit(L, name, msg, NoTimeout, t)
    ELSE RecordFailure(L, name, msg, t)

(* _handle_provider_failure up to its return statement *)
RecordProviderFailure(L, name, msg, t) ==
    IF name = NoName THEN L
    ELSE IF IsRateLimitText(msg)
    THEN IF name = "gemini"
         THEN HandleRateLimit(L, name, msg, gemini_extended_timeout, t)
         ELSE HandleRateLimit(L, name, msg, NoTimeout, t)
    ELSE RecordFailure(L, name, msg, t)

FailureHandled(n, rl) == [ledger |-> n.ledger, name |-> n.name, rate_limited |-> rl]

(* _handle_provider_failure: the ledger it leaves, the value it returns, and
   whether it took its rate-limit branch *)
HandleProviderFailure(L, name, msg, t) ==
    FailureHandled(
        GetNextAvailableProvider(RecordProviderFailure(L, name, msg, t),
                                 IF name # NoName THEN {name} ELSE {}, t),
        name # NoName /\ IsRateLimitText(msg))

(* What generate_analysis hands back: None, the result dict, or a str *)
RetNone == [type |-> "none", response |-> "", provider |-> NoName, tokens_x10 |-> 0]

RetResult(text, name) ==
    [type |-> "result", response |-> text, provider |-> name, tokens_x10 |-> Words(text) * 13]

RetName(name) ==
    IF name = NoName THEN RetNone
    ELSE [type |-> "name", response |-> "", provider |-> name, tokens_x10 |-> 0]

(* TryFailed for a _try_providers that calls the failed provider a second time *)
TryFailedRetriesSame(b, c, h) ==
    [ledger |-> h.ledger, ret |-> RetName(h.name), selected |-> b.name,
     invoked |-> <<b.name, b.name>>,
     outcome |-> IF c.rate_limited \/ h.rate_limited THEN "rate_limit" ELSE "generic",
     next |-> h.name, reset |-> b.reset]

(* _try_providers after a failed attempt: what _handle_provider_failure returns
   is returned as it is *)
TryFailed(b, c, h) ==
    [ledger |-> h.ledger, ret |-> RetName(h.name), selected |-> b.name,
     invoked |-> <<b.name>>,
     outcome |-> IF c.rate_limited \/ h.rate_limited THEN "rate_limit" ELSE "generic",
     next |-> h.name, reset |-> b.reset]

(* _try_providers from the return of _call_provider on *)
TryCalled(b, c, t) ==
    IF ~c.raised /\ c.text # ""
    THEN [ledger |-> RecordSuccess(c.ledger, b.name, t),
          ret |-> RetResult(c.text, b.name), selected |-> b.name,
          invoked |-> <<b.name>>, outcome |-> "success", next |-> NoName,
          reset |-> b.reset]
    ELSE IF c.raised
    THEN TryFailed(b, c, HandleProviderFailure(c.ledger, b.name, c.msg, t))
    ELSE TryFailed(b, c, HandleProviderFailure(
                             RecordFailure(c.ledger, b.name, EmptyText("other"), t),
                             b.name, FirstAttemptFailedText, t))

(* TrySelected charging a failure to gemini when nobody could be selected *)
TrySelectedBlamesGemini(b, o, outs, t) ==
    IF b.name = NoName
    THEN [ledger |-> RecordFailure(b.ledger, "gemini", FirstAttemptFailedText, t),
          ret |-> RetNone, selected |-> NoName, invoked |-> <<>>,
          outcome |-> "none", next |-> NoName, reset |-> b.reset]
    ELSE TryCalled(b, CallProvider(b.ledger, b.name, o, outs, t), t)

(* _try_providers from the return of get_best_provider on *)
TrySelected(b, o, outs, t) ==
    IF b.name = NoName
    THEN [ledger |-> b.ledger, ret |-> RetNone, selected |-> NoName, invoked |-> <<>>,
          outcome |-> "none", next |-> NoName, reset |-> b.reset]
    ELSE TryCalled(b, CallProvider(b.ledger, b.name, o, outs, t), t)

(* _try_providers with method = 'generate': the ledger it leaves, what it
   returns, and what happened on the way *)
TryProviders(L, o, outs, t) == TrySelected(GetBestProvider(L, t), o, outs, t)

(* ResetOne zeroing the counters without enabling the provider *)
ResetOneCountersOnly(L, name, has) ==
    LET L1 == [L EXCEPT !.providers[name].error_count = 0,
                        !.providers[name].consecutive_failures = 0,
                        !.provider_failures[name] = 0,
                        !.last_error[name] = NoError,
                        !.last_failure_time[name] = NoTime]
    IN IF L1.providers[name].client \/ name \in has
       THEN [L1 EXCEPT !.providers[name].available = TRUE]
       ELSE L1

(* reset_provider_errors for one provider *)
ResetOne(L, name, has) ==
    LET L1 == [L EXCEPT !.providers[name].error_count = 0,
                        !.providers[name].consecutive_failures = 0,
                        !.provider_failures[name] = 0,
                        !.last_error[name] = NoError,
                        !.last_failure_time[name] = NoTime,
                        !.provider_enabled[name] = TRUE]
    IN IF L1.providers[name].client \/ name \in has
       THEN [L1 EXCEPT !.providers[name].available = TRUE]
       ELSE L1

RECURSIVE ResetFrom(_, _, _)
ResetFrom(L, i, has) ==
    IF i > Len(ProviderOrder) THEN L
    ELSE ResetFrom(ResetOne(L, ProviderOrder[i], has), i + 1, has)

(* ResetProviderErrors treating every name as the call without a name *)
ResetProviderErrorsAlwaysAll(L, name, has) ==
    IF name \notin Providers \cup {NoName, EmptyName} THEN L ELSE ResetFrom(L, 1, has)

(* reset_provider_errors; name = NoName is the call without a name, and
   "if provider_name:" sends the empty string the same way *)
ResetProviderErrors(L, name, has) ==
    IF name \notin {NoName, EmptyName}
    THEN IF name \in Providers THEN ResetOne(L, name, has) ELSE L
    ELSE ResetFrom(L, 1, has)

(* get_provider_status *)
ProviderStatus(L) ==
    [name \in Providers |->
        [available |-> L.providers[name].available /\ Get(L.provider_enabled, name, TRUE),
         priority |-> priority(name),
         error_count |-> L.providers[name].error_count,
         consecutive_failures |-> Get(L.provider_failures, name, 0),
         last_success |-> L.providers[name].last_success,
         last_failure_time |-> Get(L.last_failure_time, name, NoTime),
         enabled |-> Get(L.provider_enabled, name, TRUE)]]

----------------------------------------------------------------------------
(* Bookkeeping about the run, not part of the program's state *)

NoHistory == [soft |-> 0, rl_at |-> NoTime]

(* pre_failures: the consecutive failures the selected provider had when the
   operation began *)
OpRecord(name, arg, r, L) ==
    [name |-> name, arg |-> arg, selected |-> r.selected, invoked |-> r.invoked,
     ret |-> r.ret, outcome |-> r.outcome, next |-> r.next, reset |-> r.reset,
     pre_failures |-> IF r.selected = NoName THEN 0 ELSE L.provider_failures[r.selected]]

NoRun == [selected |-> NoName, invoked |-> <<>>, ret |-> RetNone, outcome |-> "none",
          next |-> NoName, reset |-> FALSE]

(* the providers a pass through the reset branch of get_best_provider re-admits *)
ReadmittedByGlobalReset(L, reset) ==
    IF reset THEN {n \in Providers : L.providers[n].available /\ L.provider_failures[n] > 0}
    ELSE {}

HistoryOutcome(h1, outcome, t) ==
    CASE outcome = "success" -> NoHistory
      [] outcome = "rate_limit" -> [h1 EXCEPT !.rl_at = t]
      [] outcome = "generic" -> [h1 EXCEPT !.soft = @ + 1]
      [] OTHER -> h1

HistoryAfter(h, L, r, t) ==
    [n \in Providers |->
        IF n # r.selected
        THEN IF n \in ReadmittedByGlobalReset(L, r.reset)
             THEN [h[n] EXCEPT !.rl_at = NoTime] ELSE h[n]
        ELSE HistoryOutcome(IF n \in ReadmittedByGlobalReset(L, r.reset)
                            THEN [h[n] EXCEPT !.rl_at = NoTime] ELSE h[n],
                            r.outcome, t)]

SetLedger(L) ==
    /\ providers' = L.providers
    /\ provider_failures' = L.provider_failures
    /\ last_error' = L.last_error
    /\ provider_enabled' = L.provider_enabled
    /\ last_failure_time' = L.last_failure_time
    /\ rate_limits' = L.rate_limits
    /\ current_model_index' = L.current_model_index

----------------------------------------------------------------------------
(* generate_parallel_analysis: one worker thread per prompt runs
   generate_analysis on the shared ledger while the caller collects the
   futures.  Nothing in the class takes a lock, so the workers interleave
   statement by statement, and the two += of _record_failure are a read
   followed by a write. *)

(* One statement of _record_success, _record_failure or _handle_rate_limit *)
Stmt(i, key, msg, ext) == [i |-> i, key |-> key, msg |-> msg, ext |-> ext]

(* the statements of _record_success *)
RecordSuccessProgram(name) ==
    IF name \notin Providers THEN <<>>
    ELSE <<Stmt("clear_consecutive_failures", name, "", NoTimeout),
           Stmt("clear_provider_failures", name, "", NoTimeout),
           Stmt("clear_last_error", name, "", NoTimeout),
           Stmt("clear_last_failure_time", name, "", NoTimeout),
           Stmt("enable", name, "", NoTimeout),
           Stmt("set_last_success", name, "", NoTimeout)>>

(* the statements of _record_failure; the last one runs only if the test
   before it finds the threshold reached *)
RecordFailureProgram(name, msg) ==
    IF name \notin Providers THEN <<>>
    ELSE <<Stmt("load_provider_failures", name, msg, NoTimeout),
           Stmt("store_provider_failures", name, msg, NoTimeout),
           Stmt("set_last_error", name, msg, NoTimeout),
           Stmt("load_error_count", name, msg, NoTimeout),
           Stmt("store_error_count", name, msg, NoTimeout),
           Stmt("set_last_failure_time", name, msg, NoTimeout),
           Stmt("test_threshold", name, msg, NoTimeout),
           Stmt("disable", name, msg, NoTimeout)>>

(* the statements of _handle_rate_limit *)
HandleRateLimitProgram(name, msg, extended_timeout) ==
    <<Stmt("set_rate_limit", name, msg, extended_timeout)>>
    \o RecordFailureProgram(name, msg)
    \o <<Stmt("disable", name, msg, extended_timeout),
         Stmt("set_last_failure_time", name, msg, extended_timeout)>>

(* the except clause of _generate_with_gemini/groq/openai *)
InnerExceptProgram(name, msg) ==
    IF IsRateLimitText(msg)
    THEN IF name = "gemini"
         THEN HandleRateLimitProgram(GeminiModel, msg, gemini_extended_timeout)
         ELSE HandleRateLimitProgram(name, msg, NoTimeout)
    ELSE RecordFailureProgram(name, msg)

(* _handle_provider_failure up to its return statement *)
RecordProviderFailureProgram(name, msg) ==
    IF IsRateLimitText(msg)
    THEN IF name = "gemini"
         THEN HandleRateLimitProgram(name, msg, gemini_extended_timeout)
         ELSE HandleRateLimitProgram(name, msg, NoTimeout)
    ELSE RecordFailureProgram(name, msg)

(* what a worker still has to run once its backend raised msg *)
FailureProgram(name, msg) ==
    InnerExceptProgram(name, msg) \o RecordProviderFailureProgram(name, msg)

(* The effect of one statement on the ledger and on the thread's temporary;
   skip tells that the statement guarded by a failed test is passed over. *)
Done(L, tmp) == [ledger |-> L, tmp |-> tmp, skip |-> FALSE]

Exec(L, s, tmp, t) ==
    CASE s.i = "clear_consecutive_failures" ->
            Done([L EXCEPT !.providers[s.key].consecutive_failures = 0], tmp)
      [] s.i = "clear_provider_failures" ->
            Done([L EXCEPT !.provider_failures[s.key] = 0], tmp)
      [] s.i = "clear_last_error" ->
            Done([L EXCEPT !.last_error[s.key] = NoError], tmp)
      [] s.i = "clear_last_failure_time" ->
            Done([L EXCEPT !.last_failure_time[s.key] = NoTime], tmp)
      [] s.i = "enable" ->
            Done([L EXCEPT !.provider_enabled[s.key] = TRUE], tmp)
      [] s.i = "set_last_success" ->
            Done([L EXCEPT !.providers[s.key].last_success = t], tmp)
      [] s.i = "load_provider_failures" ->
            Done(L, L.provider_failures[s.key])
      [] s.i = "store_provider_failures" ->
            Done([L EXCEPT !.provider_failures[s.key] = tmp + 1], 0)
      [] s.i = "set_last_error" ->
            Done([L EXCEPT !.last_error[s.key] = s.msg], tmp)
      [] s.i = "load_error_count" ->
            Done(L, L.providers[s.key].error_count)
      [] s.i = "store_error_count" ->
            Done([L EXCEPT !.providers[s.key].error_count = tmp + 1], 0)
      [] s.i = "set_last_failure_time" ->
            Done([L EXCEPT !.last_failure_time = Put(@, s.key, t)], tmp)
      [] s.i = "test_threshold" ->
            [ledger |-> L, tmp |-> tmp, skip |-> L.provider_failures[s.key] < max_failures]
      [] s.i = "disable" ->
            Done([L EXCEPT !.provider_enabled = Put(@, s.key, FALSE)], tmp)
      [] s.i = "set_rate_limit" ->
            Done([L EXCEPT !.rate_limits =
                     Put(@, s.key,
                         [reset_time |-> t + 60 * ResetMinutes(s.msg, s.ext),
                          attempts |-> Get(L.rate_limits, s.key,
                                           [reset_time |-> NoTime, attempts |-> 0]).attempts + 1])],
                 tmp)

(* bool(result) *)
Truthy(ret) == ret.type # "none"

(* A worker thread: where it is, the provider it selected, the statements it
   still has to run, its temporary, what generate_analysis returns; recorded
   counts the _record_failure increments it performed per provider and cleared
   tells whether it recorded a success or went through the reset branch. *)
NotSubmitted ==
    [pc |-> "idle", name |-> NoName, todo |-> <<>>, tmp |-> 0, ret |-> RetNone,
     recorded |-> [n \in Providers |-> 0], cleared |-> FALSE]

Submitted == [NotSubmitted EXCEPT !.pc = "start"]

(* the backend answers of the parallel runs *)
ParOutcomes ==
    {o \in BackendOutcomes : o.kind = "text" \/ o.msg \in {"connection reset", "429 too many requests"}}

(* results = {} *)
NoResults == [w \in {} |-> [success |-> FALSE, content |-> RetNone, error |-> NoError]]

----------------------------------------------------------------------------
(* __init__ and initialize_providers: which libraries import and which
   clients get constructed depends on the environment *)

Environments ==
    {[has |-> LibraryGated, clients |-> Providers],
     [has |-> LibraryGated, clients |-> {"gemini"}],
     [has |-> LibraryGated, clients |-> {"groq", "huggingface"}],
     [has |-> {"gemini", "groq"}, clients |-> {"gemini", "groq"}],
     [has |-> {}, clients |-> {"huggingface"}],
     [has |-> {}, clients |-> {}]}

(* the ledger __init__ leaves *)
Constructed(env) ==
    [providers |-> [n \in Providers |->
                       [client |-> n \in env.clients, available |-> n \in env.clients,
                        error_count |-> 0, last_success |-> NoTime,
                        consecutive_failures |-> 0]],
     provider_failures |-> [n \in Providers |-> 0],
     last_error |-> [n \in Providers |-> NoError],
     provider_enabled |-> [n \in Providers |-> TRUE],
     last_failure_time |-> [n \in Providers |-> NoTime],
     rate_limits |-> [n \in {} |-> [reset_time |-> NoTime, attempts |-> 0]],
     current_model_index |-> 0]

(* the state in which the exploration starts: the ledger r.ledger, reached
   from the constructed ledger L0 by the run r *)
Started(L0, r, has) ==
    /\ HAS = has
    /\ providers = r.ledger.providers
    /\ provider_failures = r.ledger.provider_failures
    /\ last_error = r.ledger.last_error
    /\ provider_enabled = r.ledger.provider_enabled
    /\ last_failure_time = r.ledger.last_failure_time
    /\ rate_limits = r.ledger.rate_limits
    /\ current_model_index = r.ledger.current_model_index
    /\ now = 0
    /\ calls = 0
    /\ history = HistoryAfter([n \in Providers |-> NoHistory], L0, r, 0)
    /\ op = OpRecord("init", NoName, NoRun, Ledger)

Init ==
    \E env \in Environments :
        /\ (env.clients \cap LibraryGated) \subseteq env.has
        /\ Started(Constructed(env), NoRun @@ [ledger |-> Constructed(env)], env.has)
        /\ futures = [w \in Requests |-> NotSubmitted]
        /\ results = NoResults
        /\ collector = [pc |-> "idle", timed_out |-> FALSE, pending |-> {}]

(* the state an operation leaves *)
Commit(name, arg, r) ==
    /\ SetLedger(r.ledger)
    /\ history' = HistoryAfter(history, Ledger, r, now)
    /\ op' = OpRecord(name, arg, r, Ledger)
    /\ calls' = calls + 1
    /\ UNCHANGED <<HAS, now, futures, results, collector>>

(* generate_analysis *)
GenerateWith(o, outs) == Commit("generate", NoName, TryProviders(Ledger, o, outs, now))

AnyOutcome == CHOOSE o \in BackendOutcomes : TRUE

AnyHFOutcomes == CHOOSE outs \in HFOutcomes \X HFOutcomes : TRUE

(* generate_analysis when get_best_provider finds nobody *)
GenerateNoProvider ==
    /\ calls < MaxCalls
    /\ GetBestProvider(Ledger, now).name = NoName
    /\ GenerateWith(AnyOutcome, AnyHFOutcomes)

(* generate_analysis served by gemini, groq or openai *)
GenerateDirect ==
    /\ calls < MaxCalls
    /\ GetBestProvider(Ledger, now).name \in LibraryGated
    /\ \E o \in BackendOutcomes : GenerateWith(o, AnyHFOutcomes)

(* generate_analysis served by huggingface *)
GenerateHuggingface ==
    /\ calls < MaxCalls
    /\ GetBestProvider(Ledger, now).name = "huggingface"
    /\ \E outs \in HFOutcomes \X HFOutcomes : GenerateWith(AnyOutcome, outs)

BestRun(b) == [NoRun EXCEPT !.selected = b.name, !.reset = b.reset] @@ [ledger |-> b.ledger]

(* a direct call of get_best_provider *)
CallGetBestProvider ==
    /\ calls < MaxCalls
    /\ Commit("get_best_provider", NoName, BestRun(GetBestProvider(Ledger, now)))

(* reset_provider_errors, with a registered name, another name, or none *)
CallResetProviderErrors ==
    /\ calls < MaxCalls
    /\ \E name \in Providers \cup {GeminiModel, NoName, EmptyName} :
          /\ SetLedger(ResetProviderErrors(Ledger, name, HAS))
          /\ history' = [n \in Providers |->
                            IF name \in {NoName, EmptyName, n} THEN NoHistory ELSE history[n]]
          /\ op' = OpRecord("reset_provider_errors", name, NoRun, Ledger)
    /\ calls' = calls + 1
    /\ UNCHANGED <<HAS, now, futures, results, collector>>

(* get_provider_status running the selection's re-enable loop and reset first *)
CallGetProviderStatusReconciling ==
    /\ calls < MaxCalls
    /\ Commit("get_provider_status", NoName, BestRun(GetBestProvider(Ledger, now)))

(* get_provider_status *)
CallGetProviderStatus ==
    /\ calls < MaxCalls
    /\ op' = OpRecord("get_provider_status", NoName, NoRun, Ledger)
    /\ calls' = calls + 1
    /\ UNCHANGED <<providers, provider_failures, last_error, provider_enabled,
                   last_failure_time, rate_limits, current_model_index, HAS, now, history,
                   futures, results, collector>>

(* time passes between operations *)
Tick ==
    /\ \E t \in TimePoints : t > now /\ now' = t
    /\ op' = OpRecord("tick", NoName, NoRun, Ledger)
    /\ UNCHANGED <<providers, provider_failures, last_error, provider_enabled,
                   last_failure_time, rate_limits, current_model_index, HAS, calls, history,
                   futures, results, collector>>

Next ==
    \/ GenerateNoProvider
    \/ GenerateDirect
    \/ GenerateHuggingface
    \/ CallGetBestProvider
    \/ CallResetProviderErrors
    \/ CallGetProviderStatus
    \/ Tick

Spec == Init /\ [][Next]_vars

----------------------------------------------------------------------------
(* The parallel runs *)

AllDone == \A w \in Requests : futures[w].pc = "done"

(* the installations and the earlier traffic the parallel runs start from *)
ParEnvironments == {env \in Environments : env.clients \in {{"gemini"}, {"gemini", "groq"}}}

ParEarlier == {o \in BackendOutcomes : o.kind = "text" \/ o.msg = "connection reset"}

InitPar ==
    \E env \in ParEnvironments : \E o \in ParEarlier :
        /\ Started(Constructed(env),
                   IF o.kind = "text" THEN NoRun @@ [ledger |-> Constructed(env)]
                   ELSE TryProviders(Constructed(env), o, AnyHFOutcomes, 0),
                   env.has)
        /\ futures = [w \in Requests |-> Submitted]
        /\ results = NoResults
        /\ collector = [pc |-> "collecting", timed_out |-> FALSE, pending |-> {}]

(* the thread after get_best_provider returned b *)
WorkerSelected(f, b) ==
    [f EXCEPT !.pc = IF b.name = NoName THEN "done" ELSE "call",
              !.name = b.name,
              !.cleared = b.reset]

ParSelect(w, b) ==
    /\ SetLedger(b.ledger)
    /\ futures' = [futures EXCEPT ![w] = WorkerSelected(@, b)]
    /\ UNCHANGED <<results, collector, HAS, now, calls, history, op>>

(* WorkerSelect for requests that each keep a ledger of their own: the
   selection sees none of the failures its siblings recorded *)
WorkerSelectOwnLedger ==
    \E w \in Requests :
        /\ futures[w].pc = "start"
        /\ ParSelect(w, [GetBestProvider(
                            [Ledger EXCEPT !.provider_enabled = [n \in Providers |-> TRUE],
                                           !.provider_failures = [n \in Providers |-> 0]],
                            now)
                         EXCEPT !.ledger = Ledger])

(* a worker enters _try_providers and runs get_best_provider *)
WorkerSelect ==
    \E w \in Requests :
        /\ futures[w].pc = "start"
        /\ ParSelect(w, GetBestProvider(Ledger, now))

(* the thread after its backend call ended with o *)
WorkerCalled(f, client, o) ==
    IF ~client
    THEN [f EXCEPT !.pc = "record",
                   !.todo = RecordProviderFailureProgram(f.name, NoClientText(f.name))]
    ELSE IF o.kind = "text"
    THEN [f EXCEPT !.pc = "record", !.todo = RecordSuccessProgram(f.name),
                   !.ret = RetResult(GeneratedText, f.name), !.cleared = TRUE]
    ELSE [f EXCEPT !.pc = "record", !.todo = FailureProgram(f.name, o.msg)]

(* the backend call of a worker returns text or raises *)
WorkerReturn ==
    \E w \in Requests : \E o \in ParOutcomes :
        /\ futures[w].pc = "call"
        /\ futures[w].name \in LibraryGated
        /\ futures' = [futures EXCEPT
                          ![w] = WorkerCalled(@, providers[futures[w].name].client, o)]
        /\ UNCHANGED <<providers, provider_failures, last_error, provider_enabled,
                       last_failure_time, rate_limits, current_model_index,
                       results, collector, HAS, now, calls, history, op>>

Rest(todo, skip) == IF skip THEN Tail(Tail(todo)) ELSE Tail(todo)

(* the thread after it ran the statement s with effect x *)
WorkerStepped(f, s, x) ==
    [f EXCEPT !.todo = Rest(f.todo, x.skip),
              !.tmp = x.tmp,
              !.recorded = IF s.i = "store_provider_failures"
                           THEN [@ EXCEPT ![s.key] = @ + 1] ELSE @,
              !.pc = IF Rest(f.todo, x.skip) # <<>> THEN "record"
                     ELSE IF f.ret.type = "result" THEN "done"
                     ELSE "next"]

ParStep(w, s, x) ==
    /\ SetLedger(x.ledger)
    /\ futures' = [futures EXCEPT ![w] = WorkerStepped(@, s, x)]
    /\ UNCHANGED <<results, collector, HAS, now, calls, history, op>>

(* a worker runs its next recording statement *)
WorkerStep ==
    \E w \in Requests :
        /\ futures[w].pc = "record"
        /\ ParStep(w, Head(futures[w].todo),
                   Exec(Ledger, Head(futures[w].todo), futures[w].tmp, now))

ParNext(w, n) ==
    /\ SetLedger(n.ledger)
    /\ futures' = [futures EXCEPT ![w] = [@ EXCEPT !.pc = "done", !.ret = RetName(n.name)]]
    /\ UNCHANGED <<results, collector, HAS, now, calls, history, op>>

(* after a failure: _get_next_available_provider, whose answer
   _try_providers returns *)
WorkerNext ==
    \E w \in Requests :
        /\ futures[w].pc = "next"
        /\ ParNext(w, GetNextAvailableProvider(Ledger, {futures[w].name}, now))

(* as_completed yields a finished future and the loop body stores its result *)
Collect ==
    /\ collector.pc = "collecting"
    /\ \E w \in Requests :
          /\ futures[w].pc = "done"
          /\ w \notin DOMAIN results
          /\ results' = Put(results, w,
                            [success |-> Truthy(futures[w].ret),
                             content |-> futures[w].ret, error |-> NoError])
    /\ UNCHANGED <<providers, provider_failures, last_error, provider_enabled,
                   last_failure_time, rate_limits, current_model_index,
                   futures, collector, HAS, now, calls, history, op>>

(* every future was yielded: the with block ends and results is returned *)
ReturnResults ==
    /\ collector.pc = "collecting"
    /\ DOMAIN results = Requests
    /\ collector' = [collector EXCEPT !.pc = "returned"]
    /\ UNCHANGED <<providers, provider_failures, last_error, provider_enabled,
                   last_failure_time, rate_limits, current_model_index,
                   futures, results, HAS, now, calls, history, op>>

(* batch_timeout seconds pass with a future unfinished: as_completed raises
   TimeoutError outside the try of the loop body, and leaving the with block
   runs executor.shutdown(wait=True) *)
Timeout ==
    /\ collector.pc = "collecting"
    /\ \E w \in Requests : futures[w].pc # "done"
    /\ collector' = [pc |-> "shutdown", timed_out |-> TRUE,
                     pending |-> {w \in Requests : futures[w].pc # "done"}]
    /\ now' = batch_timeout
    /\ UNCHANGED <<providers, provider_failures, last_error, provider_enabled,
                   last_failure_time, rate_limits, current_model_index,
                   futures, results, HAS, calls, history, op>>

(* the workers have finished: shutdown returns and TimeoutError leaves
   generate_parallel_analysis *)
Shutdown ==
    /\ collector.pc = "shutdown"
    /\ AllDone
    /\ collector' = [collector EXCEPT !.pc = "raised"]
    /\ UNCHANGED <<providers, provider_failures, last_error, provider_enabled,
                   last_failure_time, rate_limits, current_model_index,
                   futures, results, HAS, now, calls, history, op>>

(* a generate_analysis call made after the batch is over *)
LaterGenerate ==
    /\ collector.pc \in {"returned", "raised"}
    /\ calls < MaxCalls
    /\ \E o \in ParOutcomes : GenerateWith(o, AnyHFOutcomes)

NextPar ==
    \/ WorkerSelect
    \/ WorkerReturn
    \/ WorkerStep
    \/ WorkerNext
    \/ Collect
    \/ ReturnResults
    \/ Timeout
    \/ Shutdown
    \/ LaterGenerate

SpecPar == InitPar /\ [][NextPar]_vars

----------------------------------------------------------------------------
(* generate_analysis with the caller's max_tokens: the runs of Spec's generate
   calls, with the budget asked for and the budget the backend received kept
   in op *)

(* the default of generate_analysis, and budgets just above each cap *)
TokenRequests == {1000, huggingface_max_new_tokens + 1, openai_max_tokens + 1,
                  gemini_max_output_tokens + 1}

CommitTokens(r, max_tokens) ==
    /\ SetLedger(r.ledger)
    /\ history' = HistoryAfter(history, Ledger, r, now)
    /\ op' = [max_tokens |-> max_tokens,
              backend_tokens |-> BackendTokens(Ledger, r.selected, max_tokens)]
                @@ OpRecord("generate", NoName, r, Ledger)
    /\ calls' = calls + 1
    /\ UNCHANGED <<HAS, now, futures, results, collector>>

GenerateWithTokens(o, outs, max_tokens) ==
    CommitTokens(TryProviders(Ledger, o, outs, now), max_tokens)

GenerateTokensNoProvider ==
    /\ calls < MaxCalls
    /\ GetBestProvider(Ledger, now).name = NoName
    /\ \E max_tokens \in TokenRequests :
          GenerateWithTokens(AnyOutcome, AnyHFOutcomes, max_tokens)

GenerateTokensDirect ==
    /\ calls < MaxCalls
    /\ GetBestProvider(Ledger, now).name \in LibraryGated
    /\ \E o \in BackendOutcomes : \E max_tokens \in TokenRequests :
          GenerateWithTokens(o, AnyHFOutcomes, max_tokens)

GenerateTokensHuggingface ==
    /\ calls < MaxCalls
    /\ GetBestProvider(Ledger, now).name = "huggingface"
    /\ \E outs \in HFOutcomes \X HFOutcomes : \E max_tokens \in TokenRequests :
          GenerateWithTokens(AnyOutcome, outs, max_tokens)

NextTokens ==
    \/ GenerateTokensNoProvider
    \/ GenerateTokensDirect
    \/ GenerateTokensHuggingface

SpecTokens == Init /\ [][NextTokens]_vars

----------------------------------------------------------------------------
(* Properties *)

Range(seq) == {seq[i] : i \in DOMAIN seq}

Usable(L, name, exclude) ==
    /\ name \notin exclude
    /\ L.providers[name].available
    /\ L.provider_enabled[name]
    /\ L.provider_failures[name] < max_failures

UntriedEligible == {n \in Providers : n \notin Range(op.invoked) /\ Usable(Ledger, n, {})}

(* C1: a generate call that did not end with text has left no untried eligible
   provider: after a failed attempt it goes on to invoke the next eligible
   provider until one returns text or none remains. *)
C1_RetriesUntilExhausted ==
    (op.name = "generate" /\ op.outcome \in {"generic", "rate_limit"} /\ op.ret.type # "result")
        => UntriedEligible = {}

(* C2: every value generate returns is none or a result record with non-empty
   text produced in this call by the provider it names; never a bare provider
   name. *)
C2_ReturnsNoneOrResult ==
    op.name = "generate" =>
        \/ op.ret.type = "none"
        \/ /\ op.ret.type = "result"
           /\ op.ret.response # ""
           /\ op.ret.provider \in Range(op.invoked)

(* C3: in every reachable ledger state, get_best_provider and
   _get_next_available_provider (for every exclude set) return no provider that
   is unavailable, disabled, at or above max_failures, or excluded. *)
C3_BestUsable(b) == b.name # NoName => Usable(b.ledger, b.name, {})

C3_NextUsable(n, exclude) == n.name # NoName => Usable(n.ledger, n.name, exclude)

C3_SelectionNeverReturnsIneligible ==
    /\ C3_BestUsable(GetBestProvider(Ledger, now))
    /\ \A exclude \in SUBSET Providers :
          C3_NextUsable(GetNextAvailableProvider(Ledger, exclude, now), exclude)
    /\ (op.name = "get_best_provider" /\ op.selected # NoName)
          => Usable(Ledger, op.selected, {})
    /\ (op.name = "generate" /\ op.next # NoName)
          => Usable(Ledger, op.next, {op.selected})

(* C3 witness: a selection passed over an available but disabled provider of
   better priority and returned another one. *)
C3_Witness ==
    /\ op.name = "get_best_provider"
    /\ op.selected # NoName
    /\ \E n \in Providers :
          /\ priority(n) < priority(op.selected)
          /\ providers[n].available
          /\ ~provider_enabled[n]

(* C4 as stated: once a provider is disabled at the failure threshold, only
   an elapsed cooldown or reset_provider_errors makes it enabled again. *)
CooldownElapsed(n) ==
    last_failure_time[n] # NoTime /\ now - last_failure_time[n] > cooldown_duration

AtThresholdDisabled(n) == provider_failures[n] >= max_failures /\ ~provider_enabled[n]

C4_StaysDisabledUntilCooldownOrReset ==
    [][\A n \in Providers :
          (AtThresholdDisabled(n) /\ provider_enabled'[n])
              => (op'.name = "reset_provider_errors" \/ CooldownElapsed(n))]_vars

(* C4 amended: a recorded failure that brings a provider to max_failures
   consecutive failures leaves it disabled, and it stays disabled until the
   cooldown has elapsed, reset_provider_errors is called, a success is recorded
   for it, or a selection that finds no eligible provider runs the reset branch
   of get_best_provider. *)
C4_StaysDisabledUntilReadmitted ==
    [][\A n \in Providers :
          /\ (provider_failures'[n] >= max_failures /\ provider_failures'[n] # provider_failures[n])
                => ~provider_enabled'[n]
          /\ (AtThresholdDisabled(n) /\ provider_enabled'[n])
                => \/ op'.name = "reset_provider_errors"
                   \/ CooldownElapsed(n)
                   \/ op'.reset
                   \/ (op'.outcome = "success" /\ op'.selected = n)]_vars

(* C4 witness: a provider sits disabled at the threshold while a later
   selection served another provider. *)
C4_Witness ==
    /\ op.name = "generate"
    /\ op.selected # NoName
    /\ ~op.reset
    /\ \E n \in Providers \ {op.selected} : AtThresholdDisabled(n) /\ providers[n].available

(* C5: a provider with fewer than max_failures failed generate attempts
   (generic errors only) since its last success or reset is still enabled, and
   if it has the best priority among the available providers a fresh generate
   call selects it. *)
BestRanked(n) == \A m \in Providers : providers[m].available => priority(n) <= priority(m)

C5_BelowThresholdStaysInRotation ==
    \A n \in Providers :
        (providers[n].available /\ history[n].soft < max_failures /\ history[n].rl_at = NoTime)
            => /\ provider_enabled[n]
               /\ BestRanked(n) => GetBestProvider(Ledger, now).name = n

(* C6: after a successful attempt in generate, the provider has no consecutive
   failures, is enabled, has no last error and no last failure time, and its
   last success time is the time of the call. *)
C6_SuccessClearsFailures ==
    (op.name = "generate" /\ op.outcome = "success")
        => /\ op.ret.type = "result"
           /\ provider_failures[op.selected] = 0
           /\ provider_enabled[op.selected]
           /\ last_failure_time[op.selected] = NoTime
           /\ last_error[op.selected] = NoError
           /\ providers[op.selected].last_success = now

(* C6 witness: a success on a provider that had consecutive failures when the
   call began. *)
C6_Witness ==
    op.name = "generate" /\ op.outcome = "success" /\ op.pre_failures > 0

(* C7: when an attempt in generate fails with an error the code classifies as
   a rate limit, the provider is disabled with its last failure time set when
   generate returns, also on its first failure, for every provider. *)
C7_RateLimitDisablesAtOnce ==
    (op.name = "generate" /\ op.outcome = "rate_limit")
        => /\ ~provider_enabled[op.selected]
           /\ last_failure_time[op.selected] = now

(* C7 witness: gemini rate limited on its first failure, below the threshold. *)
C7_Witness ==
    /\ op.name = "generate"
    /\ op.outcome = "rate_limit"
    /\ op.selected = "gemini"
    /\ op.pre_failures = 0
    /\ provider_failures["gemini"] < max_failures

(* C8 as stated: a provider whose attempt failed with a rate limit is selected
   by no generate call during the next 240 seconds (absent an explicit reset). *)
InRateLimitCooldown(n) ==
    history[n].rl_at # NoTime /\ now - history[n].rl_at < MinCooldownSeconds

C8_NotSelectedDuringCooldown ==
    [][(op'.name = "generate" /\ op'.selected # NoName)
          => ~InRateLimitCooldown(op'.selected)]_vars

(* C8 amended: a provider whose attempt failed with a rate limit is selected by
   no generate call during the next 240 seconds (absent an explicit reset)
   unless the selection finds no eligible provider and runs the reset branch of
   get_best_provider, which re-admits it at once; otherwise the call selects
   another, eligible provider or none. *)
C8_NotSelectedDuringCooldownUnlessExhausted ==
    [][(op'.name = "generate" /\ op'.selected # NoName)
          => /\ InRateLimitCooldown(op'.selected) => op'.reset
             /\ ~op'.reset => Usable(Ledger, op'.selected, {})]_vars

(* C8 witness: while a better-ranked provider is in its rate-limit cooldown, a
   generate call selected the next provider. *)
C8_Witness ==
    /\ op.name = "generate"
    /\ op.selected # NoName
    /\ ~op.reset
    /\ \E n \in Providers \ {op.selected} :
          InRateLimitCooldown(n) /\ priority(n) < priority(op.selected)

(* C9: the re-enable loops of get_best_provider and _get_next_available_provider
   leave a provider's available and enabled flags alone unless more than 600 s
   have passed since its last failure; at exactly 600 s or less it stays
   disabled. *)
FlagsKept(L, n) ==
    /\ L.providers[n].available = providers[n].available
    /\ L.provider_enabled[n] = provider_enabled[n]

C9_NoReadmissionBeforeCooldown ==
    \A n \in Providers :
        ~CooldownElapsed(n)
            => FlagsKept(ReconcileBest(Ledger, now), n) /\ FlagsKept(ReconcileNext(Ledger, now), n)

(* C9 witness: a selection ran exactly 600 s after a provider's last failure
   and left it disabled. *)
C9_Witness ==
    /\ op.name = "get_best_provider"
    /\ op.selected # NoName
    /\ ~op.reset
    /\ \E n \in Providers :
          /\ ~provider_enabled[n]
          /\ last_failure_time[n] # NoTime
          /\ now - last_failure_time[n] = cooldown_duration

(* C10: when selection runs and an unavailable or disabled provider's last
   failure is more than 600 s old, the re-enable loop re-admits it: available,
   enabled, no consecutive failures, no last failure time. *)
Readmitted(L, n) ==
    /\ L.providers[n].available
    /\ L.provider_enabled[n]
    /\ L.provider_failures[n] = 0
    /\ L.last_failure_time[n] = NoTime

C10_ReadmitsAfterCooldown ==
    \A n \in Providers :
        ((~providers[n].available \/ ~provider_enabled[n]) /\ CooldownElapsed(n))
            => Readmitted(ReconcileBest(Ledger, now), n) /\ Readmitted(ReconcileNext(Ledger, now), n)

(* C11: when at least one provider is available but none is eligible, the next
   generate call takes the reset branch of get_best_provider, which zeroes the
   consecutive failures of every available provider and enables it without
   touching its error count, then selects a provider and invokes it instead of
   returning none; 700 s without activity change nothing in this. *)
Exhausted ==
    /\ \E n \in Providers : providers[n].available
    /\ \A n \in Providers : ~Usable(Ledger, n, {})

ResetReadmitsAll(b) ==
    /\ b.reset
    /\ b.name # NoName
    /\ \A n \in Providers :
          providers[n].available
              => /\ b.ledger.provider_failures[n] = 0
                 /\ b.ledger.provider_enabled[n]
                 /\ b.ledger.providers[n].error_count = providers[n].error_count

AttemptsAfterReset(b) ==
    /\ ResetReadmitsAll(b)
    /\ op'.reset
    /\ op'.selected = b.name
    /\ op'.invoked = <<b.name>>
    /\ \A n \in Providers \ {b.name} :
          providers[n].available
              => /\ provider_failures'[n] = 0
                 /\ provider_enabled'[n]
                 /\ providers'[n].error_count = providers[n].error_count

C11_ExhaustionResetsAndAttempts ==
    [][(Exhausted /\ op'.name = "generate")
          => AttemptsAfterReset(GetBestProvider(Ledger, now))]_vars

(* C11 witness: 700 s after the start, a generate call went through the reset
   branch and invoked the provider it selected. *)
C11_Witness ==
    /\ op.name = "generate"
    /\ op.reset
    /\ op.selected # NoName
    /\ op.invoked = <<op.selected>>
    /\ now = cooldown_duration + 100

(* C12: within one generate call no provider is invoked more than once. *)
C12_NoProviderInvokedTwice ==
    op.name = "generate"
        => \A i, j \in DOMAIN op.invoked : op.invoked[i] = op.invoked[j] => i = j

(* C12 witness: a generate call whose one attempt failed while another
   provider was still eligible. *)
C12_Witness ==
    /\ op.name = "generate"
    /\ op.outcome \in {"generic", "rate_limit"}
    /\ op.invoked = <<op.selected>>
    /\ op.next # NoName

(* C13: generate returns a value and never an error, and the value is none
   exactly when no provider succeeded in that call. *)
C13_NoneExactlyWhenNoSuccess ==
    op.name = "generate"
        => /\ op.ret.type \in {"none", "result", "name"}
           /\ op.ret.type = "none" <=> op.outcome # "success"

(* C14: after any sequence of completed generate, get_best_provider and
   reset_provider_errors calls, every registered provider that is disabled has
   a last failure time. *)
C14_DisabledHasFailureTime ==
    \A n \in Providers : ~provider_enabled[n] => last_failure_time[n] # NoTime

(* C14 witness: a generic failure brought the selected provider to the
   threshold and left it disabled. *)
C14_Witness ==
    /\ op.name = "generate"
    /\ op.outcome = "generic"
    /\ ~provider_enabled[op.selected]
    /\ last_failure_time[op.selected] = now

(* C15: after any sequence of completed generate, get_best_provider and
   reset_provider_errors calls, every registered provider with max_failures or
   more consecutive failures is disabled. *)
C15_AtThresholdIsDisabled ==
    \A n \in Providers : provider_failures[n] >= max_failures => ~provider_enabled[n]

(* C15 witness: a generate call left the provider it invoked with
   max_failures or more consecutive failures. *)
C15_Witness ==
    /\ op.name = "generate"
    /\ op.invoked # <<>>
    /\ op.pre_failures < max_failures
    /\ provider_failures[op.selected] >= max_failures

(* C16: while the worker threads of generate_parallel_analysis record
   failures for one provider, with no success recorded and no reset run by any
   of them, no increment is lost: every _record_failure raises the provider's
   consecutive failures by one and its error count by one. *)
Runs(w, i) ==
    /\ futures[w].pc = "record"
    /\ Head(futures[w].todo).i = i
    /\ futures'[w] # futures[w]

Target(w) == Head(futures[w].todo).key

C16_NoLostIncrement ==
    [][\A w \in Requests :
          (\A v \in Requests : ~futures[v].cleared)
              => /\ Runs(w, "store_provider_failures")
                    => provider_failures'[Target(w)] = provider_failures[Target(w)] + 1
                 /\ Runs(w, "store_error_count")
                    => providers'[Target(w)].error_count
                          = providers[Target(w)].error_count + 1]_vars

(* C17: success and failure recording are atomic with respect to each other:
   once every worker has finished recording, no provider has max_failures or
   more consecutive failures while enabled, and none is disabled without a
   last failure time. *)
C17_RecordingsSerialize ==
    AllDone
        => \A n \in Providers :
              /\ ~(provider_failures[n] >= max_failures /\ provider_enabled[n])
              /\ ~(~provider_enabled[n] /\ last_failure_time[n] = NoTime)

(* C18: after interleaved concurrent generate calls, as long as a provider is
   available a later generate call (with no reset_provider_errors in between)
   selects a provider and invokes it instead of returning none. *)
C18_NoPermanentLockout ==
    (op.name = "generate" /\ \E n \in Providers : providers[n].available)
        => /\ op.selected # NoName
           /\ op.invoked = <<op.selected>>

(* C19: the mapping generate_parallel_analysis returns has exactly one entry
   per submitted prompt id, holding what that prompt's generate_analysis run
   returned, with success true exactly when the run produced text generated by
   a provider. *)
C19_OneEntryPerRequest ==
    collector.pc = "returned"
        => /\ DOMAIN results = Requests
           /\ \A w \in Requests :
                 /\ results[w].content = futures[w].ret
                 /\ results[w].success <=> futures[w].ret.type = "result"

(* C20: when the batch timeout elapses with requests still pending,
   generate_parallel_analysis returns its mapping without raising and without
   waiting for the calls in flight: the pending requests are in it as timeout
   failures and the results already collected are kept. *)
C20_TimeoutReturnsMapping ==
    collector.timed_out
        => /\ collector.pc = "returned"
           /\ \A w \in collector.pending :
                 /\ w \in DOMAIN results
                 /\ ~results[w].success
                 /\ results[w].error # NoError
           /\ \A w \in Requests \ collector.pending : w \in DOMAIN results

(* C21: reset_provider_errors(name) leaves that provider with no consecutive
   failures, no last error, no last failure time and enabled;
   reset_provider_errors() does so for every provider; each reset provider
   that is available is then eligible for selection, whatever state it was in. *)
ResetTargets == IF op.arg = NoName THEN Providers ELSE {op.arg} \cap Providers

C21_ResetClearsAndEnables ==
    op.name = "reset_provider_errors"
        => \A n \in ResetTargets :
              /\ provider_failures[n] = 0
              /\ providers[n].consecutive_failures = 0
              /\ last_error[n] = NoError
              /\ last_failure_time[n] = NoTime
              /\ provider_enabled[n]
              /\ providers[n].available
                    => /\ Usable(Ledger, n, {})
                       /\ ~GetBestProvider(Ledger, now).reset

(* C21 witness: the first call ended in a rate limit that disabled a provider
   and the second call reset that provider by name. *)
C21_Witness ==
    /\ op.name = "reset_provider_errors"
    /\ op.arg \in Providers
    /\ op.arg \in DOMAIN rate_limits
    /\ calls = 2
    /\ providers[op.arg].available

(* C22: get_provider_status is read-only: it leaves every provider's health
   record, the rate-limit records and the registry as they were, and runs no
   cooldown reconciliation and no reset. *)
C22_StatusIsReadOnly ==
    [][op'.name = "get_provider_status"
          => /\ UNCHANGED <<providers, provider_failures, last_error, provider_enabled,
                            last_failure_time, rate_limits, current_model_index>>
             /\ ~op'.reset]_vars

(* C22 witness: get_provider_status ran while no provider was eligible and a
   disabled provider's last failure was more than the cooldown ago. *)
C22_Witness ==
    /\ op.name = "get_provider_status"
    /\ Exhausted
    /\ \E n \in Providers : providers[n].available /\ ~provider_enabled[n] /\ CooldownElapsed(n)

(* C23: a provider's error_count never decreases through success recording,
   cooldown re-admission or the reset branch of get_best_provider: no generate
   or get_best_provider call lowers it, and only reset_provider_errors sets it
   back to 0. *)
C23_ErrorCountMonotone ==
    [][\A n \in Providers :
          /\ providers'[n].error_count < providers[n].error_count
                => /\ op'.name = "reset_provider_errors"
                   /\ providers'[n].error_count = 0
          /\ op'.name \in {"generate", "get_best_provider"}
                => providers'[n].error_count >= providers[n].error_count]_vars

(* C23 witness: a generate call went through the reset branch and recorded a
   success for a provider whose error count stayed above 0. *)
C23_Witness ==
    /\ op.name = "generate"
    /\ op.reset
    /\ op.outcome = "success"
    /\ providers[op.selected].error_count > 0

(* C24: in every reachable state each ledger dict holds exactly one entry per
   registered provider and the rate-limit records are keyed by registered
   providers only: no operation adds an entry under another name or removes
   one. *)
C24_OneRecordPerProvider ==
    /\ DOMAIN providers = Providers
    /\ DOMAIN provider_failures = Providers
    /\ DOMAIN last_error = Providers
    /\ DOMAIN provider_enabled = Providers
    /\ DOMAIN last_failure_time = Providers
    /\ DOMAIN rate_limits \subseteq Providers

(* C25: a provider attempt in generate that fails with a generic error raises
   that provider's consecutive failures by exactly 1 (counted from 0 when the
   call went through the reset branch) and its error count by exactly 1, for
   every provider. *)
C25_GenericFailureCountsOnce ==
    [][(op'.name = "generate" /\ op'.outcome = "generic")
          => /\ provider_failures'[op'.selected]
                   = (IF op'.reset THEN 0 ELSE provider_failures[op'.selected]) + 1
             /\ providers'[op'.selected].error_count
                   = providers[op'.selected].error_count + 1]_vars

(* C26: a provider attempt in generate that fails with a rate limit records
   rate-limit information for that provider with its attempt count raised by
   exactly 1 and a reset time after now, and raises the provider's consecutive
   failures (counted from 0 after the reset branch) and its error count by
   exactly 1 each. *)
AttemptsOf(n) == Get(rate_limits, n, [reset_time |-> NoTime, attempts |-> 0]).attempts

C26_RateLimitCountsOnce ==
    [][(op'.name = "generate" /\ op'.outcome = "rate_limit")
          => /\ op'.selected \in DOMAIN rate_limits'
             /\ rate_limits'[op'.selected].attempts = AttemptsOf(op'.selected) + 1
             /\ rate_limits'[op'.selected].reset_time > now
             /\ provider_failures'[op'.selected]
                   = (IF op'.reset THEN 0 ELSE provider_failures[op'.selected]) + 1
             /\ providers'[op'.selected].error_count
                   = providers[op'.selected].error_count + 1]_vars

(* C27: the cooldown _handle_rate_limit records is the explicit override when
   one is given, for every positive override; with no override it is 1440
   minutes if the error text mentions "day", else 60 minutes for "hour", else
   10 minutes for "minute", else the 4-minute default. *)
Overrides == {30, 90, gemini_extended_timeout}

RecordedCooldown(n, msg, ext) ==
    HandleRateLimit(Ledger, n, msg, ext, now).rate_limits[n].reset_time - now

StatedCooldown(msg, ext) ==
    IF ext # NoTimeout THEN ext
    ELSE IF "day" \in Substrings(msg) THEN 1440 * 60
    ELSE IF "hour" \in Substrings(msg) THEN 60 * 60
    ELSE IF "minute" \in Substrings(msg) THEN 10 * 60
    ELSE default_reset_minutes * 60

C27_CooldownChoice ==
    \A n \in Providers : \A msg \in ErrorTexts : \A ext \in Overrides \cup {NoTimeout} :
        RecordedCooldown(n, msg, ext) = StatedCooldown(msg, ext)

(* C28 as stated: a provider whose rate-limit record names a reset time later
   than the 600 s cooldown is selected by no call before that reset time
   (absent an explicit reset). *)
InRecordedCooldown(n) ==
    /\ history[n].rl_at # NoTime
    /\ n \in DOMAIN rate_limits
    /\ rate_limits[n].reset_time > history[n].rl_at + cooldown_duration
    /\ now < rate_limits[n].reset_time

Selecting == op'.name \in {"generate", "get_best_provider"}

C28_NoReadmissionBeforeResetTime ==
    [][(Selecting /\ op'.selected # NoName) => ~InRecordedCooldown(op'.selected)]_vars

(* C28 amended: a provider whose rate-limit record names a reset time later
   than the 600 s cooldown is not re-admitted to selection before that reset
   time (absent an explicit reset), also once 600 s have passed, unless a
   selection finds no eligible provider and runs the reset branch of
   get_best_provider; a selection that does not run it leaves the provider
   disabled and returns another provider or none. *)
C28_NoReadmissionBeforeResetTimeUnlessExhausted ==
    [][Selecting
          => \A n \in Providers :
                (InRecordedCooldown(n) /\ ~op'.reset)
                    => /\ op'.selected # n
                       /\ ~provider_enabled'[n]]_vars

(* C28 witness: more than 600 s after a rate limit whose record names a later
   reset time, a generate call passed the provider over and served another. *)
C28_Witness ==
    /\ op.name = "generate"
    /\ ~op.reset
    /\ op.selected # NoName
    /\ \E n \in Providers \ {op.selected} :
          /\ InRecordedCooldown(n)
          /\ now > history[n].rl_at + cooldown_duration
          /\ ~provider_enabled[n]

(* C29: among the eligible providers both selectors return the one minimal
   in (priority, consecutive failures): a lower priority rank wins whatever
   the failure counts, the failure count decides only between equal ranks,
   and none is returned exactly when the eligible set is empty. *)
EligibleSet(L, exclude) == {n \in Providers : Usable(L, n, exclude)}

MinimalIn(L, name, E) ==
    /\ name \in E
    /\ \A m \in E :
          \/ priority(name) < priority(m)
          \/ priority(name) = priority(m) /\ L.provider_failures[name] <= L.provider_failures[m]

C29_Picks(s, exclude) ==
    /\ s.name = NoName <=> EligibleSet(s.ledger, exclude) = {}
    /\ s.name # NoName => MinimalIn(s.ledger, s.name, EligibleSet(s.ledger, exclude))

C29_SelectsMinimalByPriority ==
    /\ C29_Picks(GetBestProvider(Ledger, now), {})
    /\ \A exclude \in SUBSET Providers :
          C29_Picks(GetNextAvailableProvider(Ledger, exclude, now), exclude)
    /\ (op.name = "get_best_provider" /\ op.selected # NoName)
          => MinimalIn(Ledger, op.selected, EligibleSet(Ledger, {}))
    /\ (op.name = "get_best_provider" /\ op.selected = NoName)
          => EligibleSet(Ledger, {}) = {}

(* C29 witness: get_best_provider returned a provider although an eligible
   provider of worse rank had fewer consecutive failures. *)
C29_Witness ==
    /\ op.name = "get_best_provider"
    /\ op.selected # NoName
    /\ \E m \in EligibleSet(Ledger, {}) :
          /\ priority(m) > priority(op.selected)
          /\ provider_failures[m] < provider_failures[op.selected]

(* C30: a provider call that yields empty text is not reported as success and
   is handled as a failure with the same effect on the ledger as a generic
   error raised by the same provider: same counters, same disabling, same
   value returned. *)
EmptyRun ==
    TryProviders(Ledger, [kind |-> "empty", msg |-> ""],
                 <<[kind |-> "empty", msg |-> ""], [kind |-> "empty", msg |-> ""]>>, now)

GenericRun ==
    TryProviders(Ledger, [kind |-> "error", msg |-> "connection reset"],
                 <<[kind |-> "500", msg |-> ""], [kind |-> "500", msg |-> ""]>>, now)

SameHealth(e, g) ==
    /\ e.ledger.provider_failures = g.ledger.provider_failures
    /\ e.ledger.provider_enabled = g.ledger.provider_enabled
    /\ e.ledger.last_failure_time = g.ledger.last_failure_time
    /\ \A n \in Providers :
          e.ledger.providers[n].error_count = g.ledger.providers[n].error_count

C30_EmptyTextIsGenericFailure ==
    EmptyRun.invoked # <<>>
        => /\ EmptyRun.outcome = "generic"
           /\ EmptyRun.ret = GenericRun.ret
           /\ SameHealth(EmptyRun, GenericRun)

(* C31: every failed attempt of generate is handled by exactly one of the two
   handlers: by rate-limit handling and not by generic failure handling when
   an error text of the attempt matches the rate-limit vocabulary, by generic
   failure handling and not by rate-limit handling otherwise; and an attempt
   whose errors carry no rate-limit marker leaves the provider disabled only
   with its consecutive failures at the threshold. *)
AttemptTexts(L, name, o, outs) ==
    IF name = NoName THEN {}
    ELSE IF ~L.providers[name].client THEN {NoClientText(name)}
    ELSE IF name # "huggingface"
    THEN {IF o.kind = "empty" THEN EmptyText(name) ELSE o.msg}
    ELSE LET answered == {IF outs[i].kind = "exception" THEN outs[i].msg
                          ELSE IF outs[i].kind = "429" THEN HFStatusText(429)
                          ELSE HFStatusText(500) :
                             i \in {j \in 1..NumModels : outs[j].kind \in {"exception", "429", "500"}}}
         IN IF answered = {} THEN {AllModelsFailedText} ELSE answered

AttemptsIn(L, k) == Get(L.rate_limits, k, [reset_time |-> NoTime, attempts |-> 0]).attempts

RanRateLimitHandling(L, r) ==
    \E k \in Keys : AttemptsIn(r.ledger, k) > AttemptsIn(L, k)

RanGenericHandling(L, r) ==
    r.ledger.provider_failures[r.selected]
        - (IF r.reset THEN 0 ELSE L.provider_failures[r.selected])
      > AttemptsIn(r.ledger, r.selected) - AttemptsIn(L, r.selected)

HandledByOne(L, r, texts) ==
    r.outcome \in {"generic", "rate_limit"} =>
        IF \E m \in texts : IsRateLimitText(m)
        THEN RanRateLimitHandling(L, r) /\ ~RanGenericHandling(L, r)
        ELSE /\ RanGenericHandling(L, r) /\ ~RanRateLimitHandling(L, r)
             /\ ~r.ledger.provider_enabled[r.selected]
                   => r.ledger.provider_failures[r.selected] >= max_failures

C31_ExactlyOneHandler ==
    \A o \in BackendOutcomes : \A outs \in HFOutcomes \X HFOutcomes :
        HandledByOne(Ledger, TryProviders(Ledger, o, outs, now),
                     AttemptTexts(Ledger, GetBestProvider(Ledger, now).name, o, outs))

(* C32: for every requested max_tokens and every provider type, the token
   budget handed to the backend equals min(requested, provider cap), with caps
   8192 for gemini, 8192 for groq, 4096 for openai and 1024 for huggingface,
   and so never exceeds the provider's cap. *)
StatedCap(name) ==
    CASE name = "gemini" -> 8192
      [] name = "groq" -> 8192
      [] name = "openai" -> 4096
      [] name = "huggingface" -> 1024

C32_BudgetClampedToCap ==
    (op.name = "generate" /\ op.selected # NoName) =>
        \A b \in op.backend_tokens :
            /\ b = Min(op.max_tokens, StatedCap(op.selected))
            /\ b <= StatedCap(op.selected)

(* C32 witness: openai's backend was called in a generate that asked for more
   than openai's cap. *)
C32_Witness ==
    /\ op.name = "generate"
    /\ op.selected = "openai"
    /\ op.backend_tokens # {}
    /\ op.max_tokens > StatedCap("openai")

(* C33: the concurrent requests of generate_parallel_analysis share one
   ledger: once a recorded failure has disabled a provider, a request that
   performs its selection afterwards, while another provider is eligible,
   does not select the disabled provider. *)
SelectionOf(w) == futures[w].pc = "start" /\ futures'[w].pc # "start"

C33_SiblingSkipsDisabled ==
    [][\A w \in Requests :
          (SelectionOf(w) /\ \E q \in Providers : Usable(Ledger, q, {}))
              => \A p \in Providers :
                    ~provider_enabled[p] => futures'[w].name # p]_vars

(* C33 witness: one request's failure on gemini has disabled gemini, and its
   sibling has selected groq after that. *)
C33_Witness ==
    \E w \in Requests : \E v \in Requests \ {w} :
        /\ futures[w].name = "gemini"
        /\ futures[w].recorded["gemini"] > 0
        /\ ~provider_enabled["gemini"]
        /\ futures[v].name = "groq"
        /\ futures[v].pc = "call"
        /\ futures[w].pc \in {"record", "next"}

(* C34: for every provider, get_provider_status reports the ledger's current
   values field by field: available is the provider's static available flag
   and enabled the dynamic enabled flag, independently of each other, together
   with the current priority, consecutive failures, error count, last success
   time and last failure time. *)
ReportsLedger(s, n) ==
    /\ s.available = providers[n].available
    /\ s.enabled = provider_enabled[n]
    /\ s.priority = priority(n)
    /\ s.consecutive_failures = provider_failures[n]
    /\ s.error_count = providers[n].error_count
    /\ s.last_success = providers[n].last_success
    /\ s.last_failure_time = last_failure_time[n]

C34_StatusReportsLedger ==
    op.name = "get_provider_status"
        => \A n \in Providers : ReportsLedger(ProviderStatus(Ledger)[n], n)

(* C35: every generate call terminates after invoking at most as many
   providers as are registered: it ends on the first success, on no provider
   being selectable, or once every registered provider has been tried. *)
InvokesAtMostAll == Len(op.invoked) <= Cardinality(Providers)

EndsAsStated ==
    \/ op.outcome = "success"
    \/ op.selected = NoName
    \/ op.next = NoName
    \/ Range(op.invoked) = Providers

C35_TerminatesWithinRegistered ==
    op.name = "generate" => InvokesAtMostAll /\ EndsAsStated

(* C36: recording a success, a generic failure or a rate limit for provider P
   changes only P's health record and P's rate-limit record: _record_success,
   _record_failure and _handle_rate_limit leave the consecutive failures,
   enabled and available flags, last failure time, last success time and error
   count of every other provider as they were. *)
NoRateLimit == [reset_time |-> NoTime, attempts |-> 0]

OthersKept(L, M, P) ==
    \A n \in Providers \ {P} :
        /\ M.providers[n] = L.providers[n]
        /\ M.provider_failures[n] = L.provider_failures[n]
        /\ M.provider_enabled[n] = L.provider_enabled[n]
        /\ M.last_failure_time[n] = L.last_failure_time[n]
        /\ M.last_error[n] = L.last_error[n]
        /\ Get(M.rate_limits, n, NoRateLimit) = Get(L.rate_limits, n, NoRateLimit)

C36_RecordingTouchesOnlyItsProvider ==
    \A P \in Keys :
        /\ OthersKept(Ledger, RecordSuccess(Ledger, P, now), P)
        /\ OthersKept(Ledger, RecordFailure(Ledger, P, "connection reset", now), P)
        /\ \A ext \in {NoTimeout, gemini_extended_timeout} :
              OthersKept(Ledger, HandleRateLimit(Ledger, P, "429 too many requests", ext, now), P)

(* C36 witness: a generate call recorded a rate limit for one provider while
   another provider was disabled with failures, a failure time and a
   rate-limit record of its own. *)
C36_Witness ==
    /\ op.name = "generate"
    /\ op.outcome = "rate_limit"
    /\ \E n \in Providers \ {op.selected} :
          /\ ~provider_enabled[n]
          /\ provider_failures[n] > 0
          /\ last_failure_time[n] # NoTime
          /\ n \in DOMAIN rate_limits

(* C37 as stated: reset_provider_errors(name) with a registered name leaves
   every other provider's health record unchanged, and with a name that is not
   a registered provider it changes nothing at all. *)
OthersUnchanged(P) ==
    \A n \in Providers \ {P} :
        /\ providers'[n] = providers[n]
        /\ provider_failures'[n] = provider_failures[n]
        /\ provider_enabled'[n] = provider_enabled[n]
        /\ last_failure_time'[n] = last_failure_time[n]
        /\ last_error'[n] = last_error[n]

LedgerUnchanged ==
    UNCHANGED <<providers, provider_failures, last_error, provider_enabled,
                last_failure_time, rate_limits, current_model_index>>

C37_ResetTouchesOnlyItsProvider ==
    [][(op'.name = "reset_provider_errors" /\ op'.arg # NoName)
          => IF op'.arg \in Providers THEN OthersUnchanged(op'.arg)
             ELSE LedgerUnchanged]_vars

(* C37 amended: reset_provider_errors(name) with a registered name leaves
   every other provider's health record unchanged, and with a non-empty name
   that is not a registered provider it changes nothing at all; the empty
   string resets every provider, as the call without a name does. *)
C37_ResetTouchesOnlyItsProviderUnlessEmpty ==
    [][op'.name = "reset_provider_errors"
          => /\ op'.arg \in Providers => OthersUnchanged(op'.arg)
             /\ op'.arg \notin Providers \cup {NoName, EmptyName} => LedgerUnchanged
             /\ op'.arg = EmptyName
                   => \A n \in Providers : provider_failures'[n] = 0 /\ provider_enabled'[n]]_vars

(* C37 witness: reset_provider_errors ran for one provider, or for a name
   that is no provider, while another provider was disabled with failures. *)
C37_Witness ==
    /\ op.name = "reset_provider_errors"
    /\ op.arg \notin {NoName, EmptyName}
    /\ \E n \in Providers \ {op.arg} : ~provider_enabled[n] /\ provider_failures[n] > 0

(* C38: when generate returns none because no provider could be selected at
   the start of the call, no provider was invoked and the ledger (every
   provider's counters, flags and timestamps) is exactly as it was before the
   call. *)
C38_NoSelectionLeavesLedger ==
    [][(op'.name = "generate" /\ op'.selected = NoName)
          => /\ op'.invoked = <<>>
             /\ op'.ret = RetNone
             /\ LedgerUnchanged]_vars

(* C38 witness: a generate call found no provider, went through the reset
   branch of get_best_provider and returned none. *)
C38_Witness ==
    /\ op.name = "generate"
    /\ op.selected = NoName
    /\ op.ret = RetNone
    /\ op.reset

(* C39: in every reachable state, every provider that generate selects and
   invokes has a constructed backend client: a provider whose client was never
   constructed at startup is never made available or selected by any
   operation, including reset_provider_errors, and generate itself never
   changes any provider's available flag. *)
C39_OnlyConstructedProvidersServe ==
    /\ \A n \in Providers : providers[n].available => providers[n].client
    /\ op.selected # NoName => providers[op.selected].client

====
